---- MODULE Spec2Model ----
(***************************************************************************)
(* KPI derivations of the transport dashboards.                            *)
(*                                                                         *)
(*  - OperationsDashboard (operation_manager.py): derivations computed     *)
(*    with pandas over the collections held in self.data.                  *)
(*  - DirectorDashboard (director_dashboard_app.py): derivations computed  *)
(*    by SQL queries sent through execute_query.                           *)
(*                                                                         *)
(* A DataFrame is [cols |-> set of column names, rows |-> sequence of      *)
(* records over cols].  Rates are exact rationals <<numerator,             *)
(* denominator>>; times are minutes of the day, dates are hours.           *)
(***************************************************************************)
EXTENDS Integers, Sequences, FiniteSets, TLC

VARIABLES
    db_config,      \* OperationsDashboard.db_config given (TRUE) or None (FALSE)
    engine,         \* OperationsDashboard.engine: "unset" (attribute absent) or "engine"
    data,           \* OperationsDashboard.data: table name -> DataFrame
    kpi_results,    \* OperationsDashboard.kpi_results: KPI name -> value
    source,         \* the database the engine reads: table name -> DataFrame
    last,           \* the last OperationsDashboard call: [op, raised, ret]
    connection,     \* DirectorDashboard.connection: "none" or "open"
    period_label,   \* DirectorDashboard.period_label
    interval,       \* DirectorDashboard.interval
    db,             \* the database the director queries: table name -> rows
    dlast,          \* the last DirectorDashboard call: [op, failed, raised, ret]
    pc,             \* main() of the operations app: the statement it is at
    pressed,        \* the sidebar widgets that are True in this run of main()
    rendered        \* what this run of main() has executed, in order

vars == <<db_config, engine, data, kpi_results, source, last,
          connection, period_label, interval, db, dlast, pc, pressed, rendered>>

opsVars == <<db_config, engine, data, kpi_results, source, last>>
dirVars == <<connection, period_label, interval, db, dlast>>
mainVars == <<pc, pressed, rendered>>

(***************************************************************************)
(* Bounds of the model.                                                    *)
(***************************************************************************)
MaxTimings == 2        \* trip_timings rows
MaxDurations == 2      \* trip_durations rows
MaxTripId == 2         \* distinct trip ids
MaxBookings == 4       \* bookings rows
MaxEvents == 4         \* corrective_maintenances rows (MTBF)
MaxRepairs == 2        \* corrective_maintenances rows (fleet downtime)
MaxVehicles == 10      \* vehicles rows
MaxTransactions == 2   \* transactions rows
MaxFleet == 4          \* vehicles rows of the director's database
MaxChannelBookings == 1    \* bookings rows of the director's database
MaxCustomers == 10     \* customers with a booking
MaxRaskBookings == 2   \* bookings rows of the window, for the seat-distance estimate
MaxRaskRows == 2       \* fleet_types rows and route_segments rows
MaxGroups == 16        \* routes with bookings, agencies with reports
MaxTrendBookings == 2  \* bookings rows of the monthly trend

(***************************************************************************)
(* Values and DataFrames.                                                  *)
(***************************************************************************)
\* NaN / NaT: a value outside every column's domain
NaN == -1000000
Zero == <<0, 1>>

\* (count / total) * 100 as an exact rational
Pct(count, total) == <<100 * count, total>>

RatEq(a, b) == a[1] * b[2] = b[1] * a[2]
RatLe(a, b) == a[1] * b[2] <= b[1] * a[2]
RatAdd(a, b) == <<a[1] * b[2] + b[1] * a[2], a[2] * b[2]>>

EmptyFrame == [cols |-> {}, rows |-> <<>>]

Frame(cols, rows) == [cols |-> cols, rows |-> rows]

\* DataFrame.empty: any axis of length 0
IsEmpty(df) == df.cols = {} \/ Len(df.rows) = 0

RECURSIVE SeqSum(_)
SeqSum(s) == IF s = <<>> THEN 0 ELSE Head(s) + SeqSum(Tail(s))

CountIf(s, P(_)) == Cardinality({i \in 1..Len(s) : P(s[i])})

Column(df, c) == [i \in 1..Len(df.rows) |-> df.rows[i][c]]

SeqsUpTo(S, n) == UNION {[1..k -> S] : k \in 0..n}

(***************************************************************************)
(* OperationsDashboard: the derivations.                                   *)
(***************************************************************************)

\* pd.merge(left, right, on='trip_id', how='left',
\*          suffixes=('_timing', '_duration')): a suffix is given only to a
\* column name that both frames carry (the key excepted).
LeftName(L, R, c) ==
    IF c # "trip_id" /\ c \in R.cols THEN c \o "_timing" ELSE c

RightName(L, R, c) ==
    IF c # "trip_id" /\ c \in L.cols THEN c \o "_duration" ELSE c

MergedCols(L, R) ==
    {LeftName(L, R, c) : c \in L.cols} \cup {RightName(L, R, c) : c \in R.cols}

\* one joined row: the left row's values, then the right row's (NaN when no
\* right row matches)
MergedRow(L, R, l, rs) ==
    [m \in MergedCols(L, R) |->
        IF \E c \in L.cols : LeftName(L, R, c) = m
        THEN l[CHOOSE c \in L.cols : LeftName(L, R, c) = m]
        ELSE LET c == CHOOSE c \in R.cols : RightName(L, R, c) = m
             IN  IF rs = <<>> THEN NaN ELSE rs[1][c]]

Matches(R, l) == SelectSeq(R.rows, LAMBDA r : r["trip_id"] = l["trip_id"])

RECURSIVE MergedRows(_, _, _)
MergedRows(L, R, lrows) ==
    IF lrows = <<>> THEN <<>>
    ELSE LET l == Head(lrows)
             ms == Matches(R, l)
             joined == IF ms = <<>>
                       THEN <<MergedRow(L, R, l, <<>>)>>
                       ELSE [i \in 1..Len(ms) |-> MergedRow(L, R, l, <<ms[i]>>)]
         IN  joined \o MergedRows(L, R, Tail(lrows))

Merge(L, R) == Frame(MergedCols(L, R), MergedRows(L, R, L.rows))

\* a comparison with NaN / NaT is False
LeqNaN(a, b) == a # NaN /\ b # NaN /\ a <= b
PlusNaN(a, b) == IF a = NaN \/ b = NaN THEN NaN ELSE a + b

DepartureGrace == 5
ArrivalGrace == 10

departed_on_time(row) ==
    LeqNaN(row["start"], PlusNaN(row["trip_time_timing"], DepartureGrace))

arrived_on_time(row) ==
    LeqNaN(row["end"],
           PlusNaN(PlusNaN(row["trip_time_timing"], row["expected_duration"]),
                   ArrivalGrace))

\* the tables a derivation reads that self.data does not hold: a KeyError
\* raised outside the derivation's try block
otp_KeyError(d) ==
    \/ "trip_timings" \notin DOMAIN d
    \/ ~IsEmpty(d["trip_timings"]) /\ "trip_durations" \notin DOMAIN d

calculate_otp(d) ==
    IF IsEmpty(d["trip_timings"]) \/ IsEmpty(d["trip_durations"])
    THEN <<Zero, Zero>>
    ELSE LET L == d["trip_timings"]
             R == d["trip_durations"]
         IN  IF "trip_id" \notin L.cols \/ "trip_id" \notin R.cols
             THEN <<Zero, Zero>>                    \* merge raises, caught
             ELSE
             LET merged == Merge(L, R)
                 n == Len(merged.rows)
                 departure_otp ==
                     IF "start" \in merged.cols /\ "trip_time_timing" \in merged.cols
                     THEN Pct(CountIf(merged.rows, departed_on_time), n)
                     ELSE Zero
                 arrival ==
                     "end" \in merged.cols /\ "expected_duration" \in merged.cols
             IN  IF arrival /\ "trip_time_timing" \notin merged.cols
                 THEN <<Zero, Zero>>                \* KeyError, caught
                 ELSE <<departure_otp,
                        IF arrival
                        THEN Pct(CountIf(merged.rows, arrived_on_time), n)
                        ELSE Zero>>

trip_completion_KeyError(d) == "bookings" \notin DOMAIN d

\* calculate_trip_completion counting every booking that is not completed as
\* cancelled
calculate_trip_completion_complement(d) ==
    IF IsEmpty(d["bookings"]) THEN <<Zero, Zero>>
    ELSE LET bookings == d["bookings"]
             total_trips == Len(bookings.rows)
             hasStatus == "booking_status" \in bookings.cols
             completed == IF hasStatus
                          THEN CountIf(bookings.rows,
                                   LAMBDA b : b["booking_status"] = "completed")
                          ELSE 0
             cancelled == IF hasStatus THEN total_trips - completed ELSE 0
         IN  <<Pct(completed, total_trips), Pct(cancelled, total_trips)>>

calculate_trip_completion(d) ==
    IF IsEmpty(d["bookings"]) THEN <<Zero, Zero>>
    ELSE LET bookings == d["bookings"]
             total_trips == Len(bookings.rows)
             hasStatus == "booking_status" \in bookings.cols
             completed == IF hasStatus
                          THEN CountIf(bookings.rows,
                                   LAMBDA b : b["booking_status"] = "completed")
                          ELSE 0
             cancelled == IF hasStatus
                          THEN CountIf(bookings.rows,
                                   LAMBDA b : b["booking_status"] = "cancelled")
                          ELSE 0
         IN  <<IF total_trips > 0 THEN Pct(completed, total_trips) ELSE Zero,
               IF total_trips > 0 THEN Pct(cancelled, total_trips) ELSE Zero>>

\* DataFrame.sort_values('date'): ascending insertion sort
RECURSIVE InsertByDate(_, _)
InsertByDate(row, sorted) ==
    IF sorted = <<>> THEN <<row>>
    ELSE IF row["date"] < Head(sorted)["date"] THEN <<row>> \o sorted
    ELSE <<Head(sorted)>> \o InsertByDate(row, Tail(sorted))

RECURSIVE SortByDate(_)
SortByDate(rows) ==
    IF rows = <<>> THEN <<>>
    ELSE InsertByDate(rows[Len(rows)], SortByDate(SubSeq(rows, 1, Len(rows) - 1)))

\* Series.diff() without its leading NaN
Diffs(s) == [i \in 1..(Len(s) - 1) |-> s[i + 1] - s[i]]

mtbf_KeyError(d) == "corrective_maintenances" \notin DOMAIN d

\* calculate_mtbf without the sort_values('date') call
calculate_mtbf_unsorted(d) ==
    IF IsEmpty(d["corrective_maintenances"]) THEN Zero
    ELSE LET maint == d["corrective_maintenances"]
         IN  IF Len(maint.rows) < 2 THEN Zero
             ELSE IF "date" \notin maint.cols THEN Zero
             ELSE LET time_diffs == Diffs(Column(maint, "date"))
                  IN  <<SeqSum(time_diffs), Len(time_diffs)>>

calculate_mtbf(d) ==
    IF IsEmpty(d["corrective_maintenances"]) THEN Zero
    ELSE LET maint == d["corrective_maintenances"]
         IN  IF Len(maint.rows) < 2 THEN Zero
             ELSE IF "date" \notin maint.cols THEN Zero
             ELSE LET sorted == SortByDate(maint.rows)
                      time_diffs == Diffs([i \in 1..Len(sorted) |-> sorted[i]["date"]])
                  IN  <<SeqSum(time_diffs), Len(time_diffs)>>

HoursPerDay == 24
DaysPerMonth == 30

fleet_downtime_KeyError(d) ==
    \/ "vehicles" \notin DOMAIN d
    \/ ~IsEmpty(d["vehicles"]) /\ "corrective_maintenances" \notin DOMAIN d

\* calculate_fleet_downtime with the percentage clamped to 100
calculate_fleet_downtime_clamped(d) ==
    IF IsEmpty(d["vehicles"]) \/ IsEmpty(d["corrective_maintenances"]) THEN Zero
    ELSE LET total_fleet_hours ==
                 Len(d["vehicles"].rows) * HoursPerDay * DaysPerMonth
             downtime_hours ==
                 IF "duration" \in d["corrective_maintenances"].cols
                 THEN SeqSum(Column(d["corrective_maintenances"], "duration"))
                 ELSE 0
         IN  IF downtime_hours > total_fleet_hours THEN <<100, 1>>
             ELSE Pct(downtime_hours, total_fleet_hours)

calculate_fleet_downtime(d) ==
    IF IsEmpty(d["vehicles"]) \/ IsEmpty(d["corrective_maintenances"]) THEN Zero
    ELSE LET vehicles == d["vehicles"]
             corrective_maint == d["corrective_maintenances"]
             total_fleet_hours == Len(vehicles.rows) * HoursPerDay * DaysPerMonth
             downtime_hours == IF "duration" \in corrective_maint.cols
                               THEN SeqSum(Column(corrective_maint, "duration"))
                               ELSE 0
         IN  IF total_fleet_hours > 0
             THEN Pct(downtime_hours, total_fleet_hours)
             ELSE Zero

staff_readiness_KeyError(d) == "attendances" \notin DOMAIN d

calculate_staff_readiness(d) ==
    IF IsEmpty(d["attendances"]) THEN Zero
    ELSE LET attendances == d["attendances"]
             present_count == IF "presence_type" \in attendances.cols
                              THEN CountIf(attendances.rows,
                                       LAMBDA a : a["presence_type"] = "present")
                              ELSE 0
             total_count == Len(attendances.rows)
         IN  IF total_count > 0 THEN Pct(present_count, total_count) ELSE Zero

operational_vehicles_KeyError(d) == "vehicles" \notin DOMAIN d

calculate_operational_vehicles_every_row(d) ==
    IF IsEmpty(d["vehicles"]) THEN 0 ELSE Len(d["vehicles"].rows)

calculate_operational_vehicles(d) ==
    IF IsEmpty(d["vehicles"]) THEN 0
    ELSE IF "status" \in d["vehicles"].cols
         THEN CountIf(d["vehicles"].rows, LAMBDA v : v["status"] = TRUE)
         ELSE Len(d["vehicles"].rows)

total_vehicles(d) ==
    IF ~IsEmpty(d["vehicles"]) THEN Len(d["vehicles"].rows) ELSE 0

(***************************************************************************)
(* OperationsDashboard: calculate_kpis and load_data_from_db.              *)
(***************************************************************************)
table_names ==
    <<"bookings", "vehicle_schedules", "trip_timings", "trip_durations",
      "vehicles", "corrective_maintenances", "users", "routes",
      "booking_operations", "maintenance_tasks", "attendances", "shifts">>

TableNames == {table_names[i] : i \in DOMAIN table_names}

\* the derivations in the order calculate_kpis runs them
KpiSteps_without_total_vehicles ==
    <<"otp", "trip_completion", "mtbf", "fleet_downtime", "staff_readiness",
      "operational_vehicles">>

KpiSteps ==
    <<"otp", "trip_completion", "mtbf", "fleet_downtime", "staff_readiness",
      "operational_vehicles", "total_vehicles">>

KpiKeys ==
    {"departure_otp", "arrival_otp", "completion_rate", "cancellation_rate",
     "mtbf", "downtime_pct", "staff_readiness", "operational_vehicles",
     "total_vehicles"}

StepKeyError(step, d) ==
    CASE step = "otp" -> otp_KeyError(d)
      [] step = "trip_completion" -> trip_completion_KeyError(d)
      [] step = "mtbf" -> mtbf_KeyError(d)
      [] step = "fleet_downtime" -> fleet_downtime_KeyError(d)
      [] step = "staff_readiness" -> staff_readiness_KeyError(d)
      [] step = "operational_vehicles" -> operational_vehicles_KeyError(d)
      [] step = "total_vehicles" -> "vehicles" \notin DOMAIN d

\* the kpi_results entries a step of calculate_kpis assigns
StepAssigns(step, d) ==
    CASE step = "otp" ->
            ("departure_otp" :> calculate_otp(d)[1])
            @@ ("arrival_otp" :> calculate_otp(d)[2])
      [] step = "trip_completion" ->
            ("completion_rate" :> calculate_trip_completion(d)[1])
            @@ ("cancellation_rate" :> calculate_trip_completion(d)[2])
      [] step = "mtbf" -> ("mtbf" :> calculate_mtbf(d))
      [] step = "fleet_downtime" -> ("downtime_pct" :> calculate_fleet_downtime(d))
      [] step = "staff_readiness" ->
            ("staff_readiness" :> calculate_staff_readiness(d))
      [] step = "operational_vehicles" ->
            ("operational_vehicles" :> calculate_operational_vehicles(d))
      [] step = "total_vehicles" -> ("total_vehicles" :> total_vehicles(d))

\* calculate_kpis: runs the steps in order, assigning kpi_results as it goes;
\* a KeyError of a step ends the call with the earlier assignments kept
RECURSIVE RunKpiSteps(_, _, _)
RunKpiSteps(steps, d, kr) ==
    IF steps = <<>> THEN [kpi |-> kr, raised |-> "none"]
    ELSE IF StepKeyError(Head(steps), d) THEN [kpi |-> kr, raised |-> "KeyError"]
    ELSE RunKpiSteps(Tail(steps), d, StepAssigns(Head(steps), d) @@ kr)

calculate_kpis(d, kr) == RunKpiSteps(KpiSteps, d, kr)

\* load_data_from_db: every table of table_names gets an entry, the table
\* read from the engine or, when the read raises, an empty DataFrame
load_data_from_db_without_fallback(d, src) ==
    [t \in (DOMAIN d) \cup (TableNames \cap DOMAIN src) |->
        IF t \in DOMAIN src THEN src[t] ELSE d[t]]

load_data_from_db(d, src) ==
    [t \in (DOMAIN d) \cup TableNames |->
        IF t \in TableNames
        THEN (IF t \in DOMAIN src THEN src[t] ELSE EmptyFrame)
        ELSE d[t]]

NoData == [t \in {} |-> EmptyFrame]
NoKpis == [k \in {} |-> Zero]
NoCall == [op |-> "none", raised |-> "none", ret |-> "None"]
Call(op, raised, ret) == [op |-> op, raised |-> raised, ret |-> ret]

(***************************************************************************)
(* The record collections the derivations are run on.  Columns are those   *)
(* of generate_sample_data; a table read from the database may carry       *)
(* other columns, or lack some.                                            *)
(***************************************************************************)
Restrict(f, S) == [x \in S |-> f[x]]

FramesOf(cols, rowSet, n) ==
    {Frame(cols, rows) : rows \in SeqsUpTo({Restrict(r, cols) : r \in rowSet}, n)}

TimingCols == {"trip_id", "start", "end", "trip_time"}
DurationCols == {"trip_id", "expected_duration", "real_duration", "status"}
BookingCols == {"id", "booking_status", "created_at", "trip", "route_id"}
VehicleCols == {"id", "registration_number", "status", "brand_name"}
MaintenanceCols == {"id", "date", "vehicle_id", "duration", "name"}
AttendanceCols == {"id", "user_id", "date", "presence_type"}
UserCols == {"id", "firstname", "lastname", "position"}
RouteCols == {"id", "name", "number"}

\* minutes of the day: scheduled at 08:00, started 08:04 / 08:05 / 08:06,
\* expected to last 240 minutes, ended 12:10 / 12:11
TimingRows ==
    [trip_id : 1..MaxTripId, start : {484, 485, 486}, end : {730, 731},
     trip_time : {480}]

DurationRows ==
    [trip_id : 1..MaxTripId, expected_duration : {240}, real_duration : {250},
     status : {"on_time"}, trip_time : {480}]

BookingRows ==
    [id : {1}, booking_status : {"completed", "cancelled", "pending", "no_show"},
     created_at : {0}, trip : {"TRIP001"}, route_id : {1}]

VehicleRow(operational) ==
    [id |-> 1, registration_number |-> "VEH001", status |-> operational,
     brand_name |-> "Volvo"]

\* n vehicles, the first k of them operational
Fleet(cols, n, k) ==
    Frame(cols, [i \in 1..n |-> Restrict(VehicleRow(i <= k), cols)])

\* dates in hours, durations in hours
EventRows ==
    [id : {1}, date : {0, 10, 30}, vehicle_id : {1}, duration : {8}, name : {"M"}]

RepairRows ==
    [id : {1}, date : {0}, vehicle_id : {1}, duration : {240, 360, 720},
     name : {"M"}]

AttendanceRows ==
    [id : {1}, user_id : {1}, date : {0},
     presence_type : {"present", "absent", "sick"}]

OtherFrame == Frame({"id"}, <<[id |-> 1]>>)

\* generate_sample_data: the eight collections of demo mode (fewer rows)
SampleData ==
    {   ("bookings" :> Frame(BookingCols, <<b>>))
     @@ ("trip_timings" :> Frame(TimingCols, <<t>>))
     @@ ("trip_durations" :>
            Frame(DurationCols, <<Restrict(CHOOSE r \in DurationRows :
                                               r.trip_id = t.trip_id, DurationCols)>>))
     @@ ("vehicles" :> Fleet(VehicleCols, 2, 1))
     @@ ("corrective_maintenances" :>
            Frame(MaintenanceCols,
                  <<CHOOSE r \in EventRows : r.date = 0,
                    CHOOSE r \in EventRows : r.date = 10>>))
     @@ ("users" :> Frame(UserCols,
            <<[id |-> 1, firstname |-> "DriverA", lastname |-> "LastA",
               position |-> "Driver"]>>))
     @@ ("attendances" :> Frame(AttendanceCols, <<a>>))
     @@ ("routes" :> Frame(RouteCols,
            <<[id |-> 1, name |-> "Route A", number |-> "R100"]>>))
     : b \in {r \in BookingRows : r.booking_status \in {"completed", "pending"}},
       t \in {r \in TimingRows : r.trip_id = 1 /\ r.end = 730 /\ r.start # 485},
       a \in {r \in AttendanceRows : r.presence_type # "sick"} }

\* the databases an engine reads: the tables of a sample and the other four
\* tables, any subset of the twelve unreadable; or every table without rows
Snapshot ==
    LET s == CHOOSE x \in SampleData :
                 /\ x["bookings"].rows[1].booking_status = "completed"
                 /\ x["attendances"].rows[1].presence_type = "present"
                 /\ x["trip_timings"].rows[1].start = 484
    IN  [t \in TableNames |-> IF t \in DOMAIN s THEN s[t] ELSE OtherFrame]

Sources ==
    {Restrict(Snapshot, readable) : readable \in SUBSET TableNames}
    \cup {[t \in TableNames |-> Frame({"id"}, <<>>)]}

(***************************************************************************)
(* OperationsDashboard: the state machine.                                 *)
(***************************************************************************)
DirectorIdle ==
    /\ connection = "none"
    /\ period_label = "30d"
    /\ interval = "30 days"
    /\ db = <<>>
    /\ dlast = [op |-> "none", failed |-> FALSE, raised |-> "none", ret |-> "None"]

\* main() is not running
MainIdle ==
    /\ pc = "idle"
    /\ pressed = {}
    /\ rendered = <<>>

\* __init__: with a db_config the engine is created and data stays {};
\* without one the sample data is generated and no engine attribute is set
InitOperations ==
    /\ kpi_results = NoKpis
    /\ last = NoCall
    /\ \/ /\ db_config = TRUE
          /\ engine = "engine"
          /\ data = NoData
          /\ source \in Sources
       \/ /\ db_config = FALSE
          /\ engine = "unset"
          /\ data \in SampleData
          /\ source = NoData

Init == InitOperations /\ DirectorIdle /\ MainIdle

LoadDataFromDb ==
    /\ IF engine = "unset"
       THEN /\ last' = Call("load_data_from_db", "AttributeError", "None")
            /\ data' = data
       ELSE /\ last' = Call("load_data_from_db", "none", "None")
            /\ data' = load_data_from_db(data, source)
    /\ UNCHANGED <<db_config, engine, kpi_results, source, dirVars, mainVars>>

CalculateKpis ==
    /\ kpi_results' = calculate_kpis(data, kpi_results).kpi
    /\ last' = Call("calculate_kpis", calculate_kpis(data, kpi_results).raised, "None")
    /\ UNCHANGED <<db_config, engine, data, source, dirVars, mainVars>>

\* a call of one derivation: it returns, or raises the KeyError of a table
\* self.data does not hold
Derive_recording(op, keyError, ret) ==
    /\ last' = IF keyError THEN Call(op, "KeyError", "None") ELSE Call(op, "none", ret)
    /\ kpi_results' = IF keyError THEN kpi_results ELSE (op :> ret) @@ kpi_results
    /\ UNCHANGED <<db_config, engine, data, source, dirVars, mainVars>>

Derive(op, keyError, ret) ==
    /\ last' = IF keyError THEN Call(op, "KeyError", "None") ELSE Call(op, "none", ret)
    /\ UNCHANGED <<db_config, engine, data, kpi_results, source, dirVars, mainVars>>

CalculateOtp == Derive("calculate_otp", otp_KeyError(data), calculate_otp(data))

CalculateTripCompletion ==
    Derive("calculate_trip_completion", trip_completion_KeyError(data),
           calculate_trip_completion(data))

CalculateMtbf == Derive("calculate_mtbf", mtbf_KeyError(data), calculate_mtbf(data))

CalculateFleetDowntime ==
    Derive("calculate_fleet_downtime", fleet_downtime_KeyError(data),
           calculate_fleet_downtime(data))

CalculateStaffReadiness ==
    Derive("calculate_staff_readiness", staff_readiness_KeyError(data),
           calculate_staff_readiness(data))

CalculateOperationalVehicles ==
    Derive("calculate_operational_vehicles", operational_vehicles_KeyError(data),
           calculate_operational_vehicles(data))

Next ==
    \/ LoadDataFromDb
    \/ CalculateKpis
    \/ CalculateOtp
    \/ CalculateTripCompletion
    \/ CalculateMtbf
    \/ CalculateFleetDowntime
    \/ CalculateStaffReadiness
    \/ CalculateOperationalVehicles

Spec == Init /\ [][Next]_vars

(***************************************************************************)
(* Single derivations on loaded data: every table of table_names is held,  *)
(* the tables under study drawn from the bounded sets, the others empty.   *)
(***************************************************************************)
InitLoaded(tables) ==
    /\ db_config = TRUE
    /\ engine = "engine"
    /\ data \in {over @@ [t \in TableNames |-> EmptyFrame] : over \in tables}
    /\ source = data
    /\ kpi_results = NoKpis
    /\ last = NoCall
    /\ DirectorIdle
    /\ MainIdle

OtpTables ==
    {("trip_timings" :> L) @@ ("trip_durations" :> R) :
        L \in FramesOf(TimingCols, TimingRows, MaxTimings),
        R \in FramesOf(DurationCols, DurationRows, MaxDurations)
              \cup FramesOf(DurationCols \cup {"trip_time"}, DurationRows, MaxDurations)}

InitOtp == InitLoaded(OtpTables)
SpecOtp == InitOtp /\ [][CalculateOtp]_vars

TripTables ==
    {("bookings" :> B) :
        B \in FramesOf(BookingCols, BookingRows, MaxBookings)
              \cup FramesOf(BookingCols \ {"booking_status"}, BookingRows, MaxBookings)}

InitTrip == InitLoaded(TripTables)
SpecTrip == InitTrip /\ [][CalculateTripCompletion]_vars

MtbfTables ==
    {("corrective_maintenances" :> M) :
        M \in FramesOf(MaintenanceCols, EventRows, MaxEvents)
              \cup FramesOf(MaintenanceCols \ {"date"}, EventRows, MaxEvents)}

InitMtbf == InitLoaded(MtbfTables)
SpecMtbf == InitMtbf /\ [][CalculateMtbf]_vars

DowntimeTables ==
    {("vehicles" :> Fleet(VehicleCols, n, n)) @@ ("corrective_maintenances" :> M) :
        n \in 0..MaxVehicles,
        M \in FramesOf(MaintenanceCols, RepairRows, MaxRepairs)
              \cup FramesOf(MaintenanceCols \ {"duration"}, RepairRows, MaxRepairs)}

InitDowntime == InitLoaded(DowntimeTables)
SpecDowntime == InitDowntime /\ [][CalculateFleetDowntime]_vars

\* n vehicles of which k are flagged operational, with and without the status
\* column
VehicleTables ==
    UNION {{("vehicles" :> Fleet(cols, n, k)) :
               k \in 0..n, cols \in {VehicleCols, VehicleCols \ {"status"}}} :
           n \in 0..MaxVehicles}

InitVehicles == InitLoaded(VehicleTables)
NextVehicles == CalculateOperationalVehicles \/ CalculateKpis
SpecVehicles == InitVehicles /\ [][NextVehicles]_vars

\* The derivations in any order on a dashboard whose data is fixed: the
\* sample data, nothing loaded, or the tables loaded from a database where
\* any of the tables the KPIs read failed to load.
KpiTableNames ==
    {"trip_timings", "trip_durations", "bookings", "corrective_maintenances",
     "vehicles", "attendances"}

InitDerivations ==
    /\ kpi_results = NoKpis
    /\ last = NoCall
    /\ DirectorIdle
    /\ MainIdle
    /\ \/ /\ db_config = TRUE
          /\ engine = "engine"
          /\ source \in {Restrict(Snapshot, TableNames \ failed) :
                            failed \in SUBSET KpiTableNames}
          /\ data \in {NoData, load_data_from_db(NoData, source)}
       \/ /\ db_config = FALSE
          /\ engine = "unset"
          /\ data \in SampleData
          /\ source = NoData

NextDerivations ==
    \/ CalculateKpis
    \/ CalculateOtp
    \/ CalculateTripCompletion
    \/ CalculateMtbf
    \/ CalculateFleetDowntime
    \/ CalculateStaffReadiness
    \/ CalculateOperationalVehicles

SpecDerivations == InitDerivations /\ [][NextDerivations]_vars

\* load_data_from_db and calculate_kpis in any order
NextLoad == LoadDataFromDb \/ CalculateKpis
SpecLoad == Init /\ [][NextLoad]_vars

(***************************************************************************)
(* main() of the operations app.  Streamlit runs it from the top at every  *)
(* interaction; each run builds a new OperationsDashboard.  A widget of    *)
(* pressed is True in the run; any set of them may be.                     *)
(***************************************************************************)
Widgets == {"use_database", "load", "kpis", "visualizations"}

\* the kpi_results keys the charts of create_visualizations read
ChartKeys == {"departure_otp", "arrival_otp", "completion_rate", "cancellation_rate"}

\* the checkbox and OperationsDashboard(db_config) or OperationsDashboard()
MainStart ==
    /\ pc = "start"
    /\ \E p \in SUBSET Widgets :
          /\ pressed' = p
          /\ IF "use_database" \in p
             THEN /\ db_config' = TRUE
                  /\ engine' = "engine"
                  /\ data' = NoData
                  /\ pc' = "load_button"
             ELSE /\ db_config' = FALSE
                  /\ engine' = "unset"
                  /\ data' \in SampleData
                  /\ pc' = "kpis_button"
    /\ kpi_results' = NoKpis
    /\ last' = NoCall
    /\ rendered' = <<>>
    /\ UNCHANGED <<source, dirVars>>

\* if st.sidebar.button("Load Data from Database"): load_data_from_db()
MainLoadData ==
    /\ pc = "load_button"
    /\ IF "load" \in pressed
       THEN /\ data' = load_data_from_db(data, source)
            /\ last' = Call("load_data_from_db", "none", "None")
            /\ rendered' = Append(rendered, "load_data_from_db")
       ELSE UNCHANGED <<data, last, rendered>>
    /\ pc' = "kpis_button"
    /\ UNCHANGED <<db_config, engine, kpi_results, source, pressed, dirVars>>

\* if st.sidebar.button("Calculate KPIs"): calculate_kpis(), whose KeyError
\* ends the run
MainCalculateKpis ==
    /\ pc = "kpis_button"
    /\ IF "kpis" \in pressed
       THEN /\ kpi_results' = calculate_kpis(data, kpi_results).kpi
            /\ last' = Call("calculate_kpis",
                             calculate_kpis(data, kpi_results).raised, "None")
            /\ IF calculate_kpis(data, kpi_results).raised = "none"
               THEN /\ rendered' = Append(rendered, "calculate_kpis")
                    /\ pc' = "report"
               ELSE /\ rendered' = rendered
                    /\ pc' = "raised"
       ELSE /\ pc' = "visualizations_button"
            /\ UNCHANGED <<kpi_results, last, rendered>>
    /\ UNCHANGED <<db_config, engine, data, source, pressed, dirVars>>

\* generate_report() reads the nine keys of kpi_results
MainGenerateReport ==
    /\ pc = "report"
    /\ IF KpiKeys \subseteq DOMAIN kpi_results
       THEN /\ rendered' = Append(rendered, "generate_report")
            /\ pc' = "visualizations_button"
       ELSE /\ rendered' = rendered
            /\ pc' = "raised"
    /\ UNCHANGED <<opsVars, pressed, dirVars>>

\* if st.sidebar.button("Generate Visualizations"): the warning when
\* kpi_results is empty, else create_visualizations(), whose charts read
\* kpi_results and the vehicles and corrective_maintenances collections
MainVisualizations ==
    /\ pc = "visualizations_button"
    /\ IF "visualizations" \notin pressed
       THEN /\ rendered' = rendered
            /\ pc' = "done"
       ELSE IF kpi_results = NoKpis
       THEN /\ rendered' = Append(rendered, "warning")
            /\ pc' = "done"
       ELSE IF /\ ChartKeys \subseteq DOMAIN kpi_results
               /\ {"vehicles", "corrective_maintenances"} \subseteq DOMAIN data
       THEN /\ rendered' = Append(rendered, "create_visualizations")
            /\ pc' = "done"
       ELSE /\ rendered' = rendered
            /\ pc' = "raised"
    /\ UNCHANGED <<opsVars, pressed, dirVars>>

\* the next interaction runs main() again
MainRerun ==
    /\ pc \in {"done", "raised"}
    /\ pc' = "start"
    /\ UNCHANGED <<opsVars, pressed, rendered, dirVars>>

\* the databases of the runs: every table readable, the vehicles table not,
\* none, or every table without rows
MainSources ==
    {Snapshot, Restrict(Snapshot, TableNames \ {"vehicles"}), NoData,
     [t \in TableNames |-> Frame({"id"}, <<>>)]}

InitMain ==
    /\ pc = "start"
    /\ pressed = {}
    /\ rendered = <<>>
    /\ db_config = FALSE
    /\ engine = "unset"
    /\ data = NoData
    /\ kpi_results = NoKpis
    /\ last = NoCall
    /\ source \in MainSources
    /\ DirectorIdle

NextMain ==
    \/ MainStart
    \/ MainLoadData
    \/ MainCalculateKpis
    \/ MainGenerateReport
    \/ MainVisualizations
    \/ MainRerun

SpecMain == InitMain /\ [][NextMain]_vars

(***************************************************************************)
(* Claims about OperationsDashboard.                                       *)
(***************************************************************************)
\* the collections a KPI of kpi_results is derived from
KpiTables(k) ==
    CASE k \in {"departure_otp", "arrival_otp"} -> {"trip_timings", "trip_durations"}
      [] k \in {"completion_rate", "cancellation_rate"} -> {"bookings"}
      [] k = "mtbf" -> {"corrective_maintenances"}
      [] k = "downtime_pct" -> {"vehicles", "corrective_maintenances"}
      [] k = "staff_readiness" -> {"attendances"}
      [] k \in {"operational_vehicles", "total_vehicles"} -> {"vehicles"}

KpiIsZero(k, v) ==
    IF k \in {"operational_vehicles", "total_vehicles"} THEN v = 0 ELSE v[1] = 0

EmptyOrMissing(t) == t \notin DOMAIN data \/ IsEmpty(data[t])

\* C1: calculate_kpis never raises, and every KPI one of whose collections is
\* empty or missing is stored in kpi_results as 0.
C1_EmptyOrMissingGivesZero ==
    last.op = "calculate_kpis" =>
        /\ last.raised = "none"
        /\ \A k \in KpiKeys :
              (\E t \in KpiTables(k) : EmptyOrMissing(t)) =>
                  k \in DOMAIN kpi_results /\ KpiIsZero(k, kpi_results[k])

\* the left join of trip_timings with trip_durations, counted row by row: a
\* timing row is joined once with each duration row of its trip_id, or once
\* with no duration
DurationsOf(l) ==
    {j \in 1..Len(data["trip_durations"].rows) :
        data["trip_durations"].rows[j]["trip_id"] = l["trip_id"]}

JoinedCount(P(_, _)) ==
    LET L == data["trip_timings"].rows
        R == data["trip_durations"].rows
        rowsOf(i) == IF DurationsOf(L[i]) = {}
                     THEN (IF P(L[i], <<>>) THEN 1 ELSE 0)
                     ELSE Cardinality({j \in DurationsOf(L[i]) : P(L[i], <<R[j]>>)})
    IN  SeqSum([i \in 1..Len(L) |-> rowsOf(i)])

DataModelOtp ==
    /\ ~IsEmpty(data["trip_timings"]) /\ ~IsEmpty(data["trip_durations"])
    /\ data["trip_timings"].cols = TimingCols
    /\ data["trip_durations"].cols = DurationCols

\* C4: for non-empty collections with the fields of the data model the
\* departure rate is 100 * (joined rows with start <= trip_time + 5 minutes)
\* / (joined rows).
C4_DepartureRate ==
    (last.op = "calculate_otp" /\ DataModelOtp) =>
        /\ last.raised = "none"
        /\ RatEq(last.ret[1],
                 <<100 * JoinedCount(LAMBDA l, r : l["start"] <= l["trip_time"] + 5),
                   JoinedCount(LAMBDA l, r : TRUE)>>)

\* C5: for non-empty collections the arrival rate is 100 * (joined rows with
\* end <= trip_time + expected_duration + 10 minutes) / (joined rows), every
\* timing row being in the denominator and a timing row without a duration
\* counting as not on time.
C5_ArrivalRate ==
    (last.op = "calculate_otp" /\ DataModelOtp) =>
        /\ last.raised = "none"
        /\ RatEq(last.ret[2],
                 <<100 * JoinedCount(LAMBDA l, r :
                       r # <<>> /\ l["end"] <= l["trip_time"] + r[1]["expected_duration"] + 10),
                   JoinedCount(LAMBDA l, r : TRUE)>>)

EventDates ==
    LET m == data["corrective_maintenances"]
    IN  IF "date" \in m.cols THEN {m.rows[i]["date"] : i \in 1..Len(m.rows)} ELSE {}

SetMax(S) == CHOOSE x \in S : \A y \in S : y <= x
SetMin(S) == CHOOSE x \in S : \A y \in S : x <= y

\* C6: calculate_mtbf returns 0 for 0 or 1 events; for 2 or more dated events
\* it returns the mean of the consecutive differences of the dates in
\* ascending order, (latest - earliest) / (events - 1), whatever the order of
\* the records: events at hours 0, 10, 30 give 15.
C6_Mtbf ==
    last.op = "calculate_mtbf" =>
        LET m == data["corrective_maintenances"]
            n == Len(m.rows)
        IN  /\ last.raised = "none"
            /\ n < 2 => last.ret = Zero
            /\ (n >= 2 /\ "date" \in m.cols) =>
                  RatEq(last.ret, <<SetMax(EventDates) - SetMin(EventDates), n - 1>>)
            /\ (n = 3 /\ EventDates = {0, 10, 30}) => RatEq(last.ret, <<15, 1>>)

C6_Witness ==
    /\ last.op = "calculate_mtbf"
    /\ Column(data["corrective_maintenances"], "id") = <<1, 1, 1>>
    /\ "date" \in data["corrective_maintenances"].cols
    /\ Column(data["corrective_maintenances"], "date") = <<30, 0, 10>>
    /\ last.ret = <<30, 2>>

StatusCount(S) ==
    LET b == data["bookings"]
    IN  IF "booking_status" \in b.cols
        THEN Cardinality({i \in 1..Len(b.rows) : b.rows[i]["booking_status"] \in S})
        ELSE 0

\* C7: calculate_trip_completion returns (100 * completed / total,
\* 100 * cancelled / total), and (0, 0) without bookings or without a status
\* field; completion + cancellation <= 100, and with the share of the
\* bookings of any other status they add up to 100.
C7_TripCompletion ==
    last.op = "calculate_trip_completion" =>
        LET b == data["bookings"]
            total == Len(b.rows)
            completed == StatusCount({"completed"})
            cancelled == StatusCount({"cancelled"})
            other == total - completed - cancelled
        IN  /\ last.raised = "none"
            /\ (total = 0 \/ "booking_status" \notin b.cols) =>
                  RatEq(last.ret[1], Zero) /\ RatEq(last.ret[2], Zero)
            /\ total > 0 =>
                  /\ RatEq(last.ret[1], <<100 * completed, total>>)
                  /\ RatEq(last.ret[2], <<100 * cancelled, total>>)
                  /\ RatEq(RatAdd(RatAdd(last.ret[1], last.ret[2]),
                                  <<100 * other, total>>), <<100, 1>>)
            /\ RatLe(RatAdd(last.ret[1], last.ret[2]), <<100, 1>>)

C7_Witness ==
    /\ last.op = "calculate_trip_completion"
    /\ Len(data["bookings"].rows) = 4
    /\ StatusCount({"completed"}) = 2
    /\ StatusCount({"cancelled"}) = 1
    /\ last.ret = <<<<200, 4>>, <<100, 4>>>>

RepairHours ==
    LET m == data["corrective_maintenances"]
    IN  IF "duration" \in m.cols
        THEN SeqSum([i \in 1..Len(m.rows) |-> m.rows[i]["duration"]])
        ELSE 0

\* C8: calculate_fleet_downtime returns 100 * (maintenance hours) /
\* (vehicles * 24 * 30), and 0 without vehicles; it is not clamped, so it
\* exceeds 100 when the hours exceed the baseline; 10 vehicles with 720 hours
\* give 10.
C8_FleetDowntime ==
    last.op = "calculate_fleet_downtime" =>
        LET vehicle_count == Len(data["vehicles"].rows)
        IN  /\ last.raised = "none"
            /\ vehicle_count = 0 => last.ret = Zero
            /\ vehicle_count > 0 =>
                  RatEq(last.ret, <<100 * RepairHours, vehicle_count * 24 * 30>>)
            /\ (vehicle_count > 0 /\ RepairHours > vehicle_count * 24 * 30) =>
                  ~RatLe(last.ret, <<100, 1>>)
            /\ (vehicle_count = 10 /\ RepairHours = 720) => RatEq(last.ret, <<10, 1>>)

C8_Witness ==
    /\ last.op = "calculate_fleet_downtime"
    /\ Len(data["vehicles"].rows) = 10
    /\ RepairHours = 720
    /\ RatEq(last.ret, <<10, 1>>)

FlaggedOperational ==
    LET v == data["vehicles"]
    IN  {i \in 1..Len(v.rows) : "status" \in v.cols /\ v.rows[i]["status"] = TRUE}

\* C13: calculate_operational_vehicles returns the number of vehicle records
\* flagged operational, the number of vehicle records when the status field
\* is absent, and 0 for an empty fleet; the operational_vehicles stored by
\* calculate_kpis never exceeds the stored total_vehicles.
C13_OperationalVehicles ==
    /\ last.op = "calculate_operational_vehicles" =>
          LET v == data["vehicles"]
          IN  /\ last.raised = "none"
              /\ "status" \in v.cols => last.ret = Cardinality(FlaggedOperational)
              /\ "status" \notin v.cols => last.ret = Len(v.rows)
              /\ Len(v.rows) = 0 => last.ret = 0
    /\ "total_vehicles" \in DOMAIN kpi_results =>
          /\ kpi_results["operational_vehicles"] <= kpi_results["total_vehicles"]
          /\ kpi_results["total_vehicles"] = Len(data["vehicles"].rows)

C13_Witness ==
    /\ last.op = "calculate_operational_vehicles"
    /\ last.ret = 2
    /\ Len(data["vehicles"].rows) = 3
    /\ "total_vehicles" \in DOMAIN kpi_results
    /\ kpi_results["operational_vehicles"] = 2
    /\ kpi_results["total_vehicles"] = 3

\* C18: a call of calculate_kpis or of a single derivation leaves every
\* collection of data as it was, and leaves kpi_results as the first
\* calculate_kpis call on these data set them.
C18_Idempotent ==
    [][/\ data' = data
       /\ kpi_results # NoKpis => kpi_results' = kpi_results
       /\ last'.op # "calculate_kpis" => kpi_results' = kpi_results]_vars

C18_Witness ==
    /\ last.op = "calculate_mtbf" /\ last.raised = "none"
    /\ DOMAIN kpi_results = KpiKeys
    /\ Column(data["corrective_maintenances"], "date") = <<0, 10>>
    /\ last.ret = <<10, 1>>
    /\ kpi_results["mtbf"] = <<10, 1>>

\* C19: after load_data_from_db on a dashboard with an engine, data holds
\* each of the 12 tables, a table whose read failed as an empty collection,
\* whatever tables failed; a calculate_kpis that follows does not raise and
\* stores 0 for every KPI one of whose tables failed to load.
C19_LoadThenKpis ==
    /\ (last.op = "load_data_from_db" /\ last.raised = "none") =>
          /\ TableNames \subseteq DOMAIN data
          /\ Cardinality(TableNames) = 12
          /\ \A t \in TableNames :
                data[t] = IF t \in DOMAIN source THEN source[t] ELSE EmptyFrame
    /\ (last.op = "calculate_kpis" /\ data # NoData /\ engine = "engine") =>
          /\ last.raised = "none"
          /\ DOMAIN kpi_results = KpiKeys
          /\ \A k \in KpiKeys :
                (\E t \in KpiTables(k) : t \notin DOMAIN source) =>
                    KpiIsZero(k, kpi_results[k])

C19_Witness ==
    /\ last.op = "calculate_kpis" /\ last.raised = "none"
    /\ engine = "engine"
    /\ DOMAIN source = TableNames \ {"vehicles", "shifts"}
    /\ data["vehicles"] = EmptyFrame
    /\ kpi_results["total_vehicles"] = 0
    /\ kpi_results["downtime_pct"] = Zero
    /\ kpi_results["completion_rate"] = <<100, 1>>

Executed(step) == {i \in 1..Len(rendered) : rendered[i] = step}

\* C20: in a run of main(), generate_report and create_visualizations are
\* executed only after calculate_kpis has completed in that run; a request
\* for visualizations with an empty kpi_results gives the warning instead;
\* and once calculate_kpis has completed kpi_results holds the nine keys.
C20_KpisFirst ==
    /\ \A i \in Executed("generate_report") \cup Executed("create_visualizations") :
          \E j \in Executed("calculate_kpis") : j < i
    /\ Executed("calculate_kpis") # {} => DOMAIN kpi_results = KpiKeys
    /\ Executed("warning") # {} =>
          /\ kpi_results = NoKpis
          /\ Executed("calculate_kpis") = {}
          /\ Executed("create_visualizations") = {}
    /\ (pc = "done" /\ "visualizations" \in pressed /\ kpi_results = NoKpis) =>
          rendered # <<>> /\ rendered[Len(rendered)] = "warning"

C20_Witness ==
    /\ pc = "done"
    /\ rendered = <<"load_data_from_db", "calculate_kpis", "generate_report",
                    "create_visualizations">>
    /\ DOMAIN kpi_results = KpiKeys

(***************************************************************************)
(* DirectorDashboard: the database and the queries.                        *)
(*                                                                         *)
(* db maps a table name to its rows.  A date or created_at is kept as its  *)
(* age in days before CURRENT_DATE.  A text is a sequence of characters;   *)
(* Null is the SQL NULL.                                                   *)
(***************************************************************************)
Null == <<"NULL">>

\* set_period: the interval an option selects
IntervalOf_without_365d(period) ==
    CASE period = "30d" -> "30 days"
      [] period = "60d" -> "60 days"
      [] period = "6m" -> "6 months"
      [] OTHER -> "30 days"

IntervalOf(period) ==
    CASE period = "30d" -> "30 days"
      [] period = "60d" -> "60 days"
      [] period = "365d" -> "365 days"
      [] period = "6m" -> "6 months"
      [] OTHER -> "30 days"

\* x >= CURRENT_DATE - INTERVAL '<interval>'; six months are 181 to 184 days,
\* and no age of the model lies in between
InWindow(age, ivl) ==
    CASE ivl = "30 days" -> age <= 30
      [] ivl = "60 days" -> age <= 60
      [] ivl = "365 days" -> age <= 365
      [] ivl = "6 months" -> age <= 181

\* ROUND(n / d, 2) and ROUND(n / d, 4) of a numeric, d > 0: half away from zero
RoundDiv(n, d) ==
    IF n >= 0 THEN (2 * n + d) \div (2 * d) ELSE -((2 * (-n) + d) \div (2 * d))

Round2(n, d) == <<RoundDiv(100 * n, d), 100>>
Round4(n, d) == <<RoundDiv(10000 * n, d), 10000>>

Where(rows, P(_)) == SelectSeq(rows, P)
Sum(rows, c) == SeqSum([i \in 1..Len(rows) |-> rows[i][c]])
Distinct(rows, c) == {rows[i][c] : i \in 1..Len(rows)}

\* FROM a CROSS JOIN b: every pair of rows
RECURSIVE CrossJoin(_, _)
CrossJoin(a, b) ==
    IF a = <<>> THEN <<>>
    ELSE [j \in 1..Len(b) |-> [t |-> Head(a), v |-> b[j]]] \o CrossJoin(Tail(a), b)

gross_revenue(d, ivl) ==
    Sum(Where(d.transactions,
              LAMBDA t : t.type = "revenue" /\ InWindow(t.age, ivl)), "debit")

net_profit(d, ivl) ==
    LET rows == Where(d.transactions, LAMBDA t : InWindow(t.age, ivl))
    IN  Sum(Where(rows, LAMBDA t : t.type = "revenue"), "debit")
        - Sum(Where(rows, LAMBDA t : t.type = "expense"), "credit")

commission_costs(d, ivl) ==
    Sum(Where(d.agency_commissions, LAMBDA c : InWindow(c.age, ivl)), "value")

\* vehicles v LEFT JOIN vehicle_schedules vs WHERE v.status = true
fleet_utilization(d) ==
    LET operational == Where(d.vehicles, LAMBDA v : v.status)
        total == Cardinality(Distinct(operational, "id"))
        active == Cardinality({id \in Distinct(operational, "id") :
                                  id \in Distinct(d.vehicle_schedules, "vehicle_id")})
    IN  <<IF total > 0 THEN Round2(active * 100, total) ELSE Zero, active, total>>

\* SELECT SUM(t.debit), COUNT(DISTINCT v.id) and their rounded quotient over the joined rows
rofa_of(joined) ==
    LET total_revenue == SeqSum([i \in 1..Len(joined) |-> joined[i].t.debit])
        total_fleet == Cardinality({joined[i].v.id : i \in 1..Len(joined)})
    IN  <<IF total_fleet > 0 THEN Round2(total_revenue, total_fleet) ELSE Zero,
          total_revenue, total_fleet>>

\* transactions t CROSS JOIN vehicles v WHERE t.type = 'revenue' AND t.date in
\* the window AND v.status = true
rofa(d, ivl) ==
    rofa_of(Where(CrossJoin(d.transactions, d.vehicles),
                  LAMBDA p : p.t.type = "revenue" /\ InWindow(p.t.age, ivl)
                             /\ p.v.status))

DefaultSeats == 40
DefaultDistance == 100

\* bookings * AVG(total_seat) * AVG(distance) as a rational, and the revenue
\* over it rounded to four places
rask_simple_no_default(d, ivl) ==
    LET total_revenue == gross_revenue(d, ivl)
        total_bookings == Len(Where(d.bookings, LAMBDA b : InWindow(b.age, ivl)))
        seats == Where(d.fleet_types, LAMBDA f : f.total_seat > 0)
        dists == Where(d.route_segments, LAMBDA r : r.distance > 0)
        ask_num == total_bookings * Sum(seats, "total_seat") * Sum(dists, "distance")
        ask_den == Len(seats) * Len(dists)
    IN  IF ask_num > 0 THEN Round4(total_revenue * ask_den, ask_num) ELSE Zero

rask_simple(d, ivl) ==
    LET total_revenue == gross_revenue(d, ivl)
        total_bookings == Len(Where(d.bookings, LAMBDA b : InWindow(b.age, ivl)))
        seats == Where(d.fleet_types, LAMBDA f : f.total_seat > 0)
        dists == Where(d.route_segments, LAMBDA r : r.distance > 0)
        avg_seats == IF seats = <<>> THEN <<DefaultSeats, 1>>
                     ELSE <<Sum(seats, "total_seat"), Len(seats)>>
        avg_distance == IF dists = <<>> THEN <<DefaultDistance, 1>>
                        ELSE <<Sum(dists, "distance"), Len(dists)>>
        ask_num == total_bookings * avg_seats[1] * avg_distance[1]
        ask_den == avg_seats[2] * avg_distance[2]
    IN  IF ask_num > 0 THEN Round4(total_revenue * ask_den, ask_num) ELSE Zero

\* booking_channel LIKE '%pat%': case-sensitive, never true of NULL
Contains(text, pat) ==
    \E i \in 0..(Len(text) - Len(pat)) : SubSeq(text, i + 1, i + Len(pat)) = pat

Like(text, pat) == text # Null /\ Contains(text, pat)

Txt_web == <<"w", "e", "b">>
Txt_online == <<"o", "n", "l", "i", "n", "e">>
Txt_pos == <<"p", "o", "s">>
Txt_counter == <<"c", "o", "u", "n", "t", "e", "r">>
Txt_mobile == <<"m", "o", "b", "i", "l", "e">>
Txt_app == <<"a", "p", "p">>
Txt_b2b == <<"b", "2", "b">>
Txt_corporate == <<"c", "o", "r", "p", "o", "r", "a", "t", "e">>

source_types == <<"All Channels", "Web", "POS", "Mobile", "B2B">>

ChannelPatterns(source_type) ==
    CASE source_type = "Web" -> {Txt_web, Txt_online}
      [] source_type = "POS" -> {Txt_pos, Txt_counter}
      [] source_type = "Mobile" -> {Txt_mobile, Txt_app}
      [] source_type = "B2B" -> {Txt_b2b, Txt_corporate}
      [] OTHER -> {}

\* the WHERE clause of one SELECT of the UNION ALL, without the window
ChannelWhereNoNull(source_type, b) ==
    \/ source_type = "All Channels"
    \/ \E pat \in ChannelPatterns(source_type) : Like(b.booking_channel, pat)

ChannelWhere(source_type, b) ==
    \/ source_type = "All Channels"
    \/ \E pat \in ChannelPatterns(source_type) : Like(b.booking_channel, pat)
    \/ source_type = "Web" /\ b.booking_channel = Null

SourceRow(d, ivl, source_type) ==
    LET rows == Where(d.bookings,
                      LAMBDA b : InWindow(b.age, ivl) /\ ChannelWhere(source_type, b))
    IN  [source_type |-> source_type, booking_count |-> Len(rows),
         total_revenue |-> Sum(rows, "total_price")]

SourceRows(d, ivl) == {SourceRow(d, ivl, source_types[i]) : i \in DOMAIN source_types}

\* ORDER BY total_revenue DESC: the orders of the rows it allows, rows of
\* equal revenue in any order
RECURSIVE OrderedByRevenue(_)
OrderedByRevenue(rows) ==
    IF rows = {} THEN {<<>>}
    ELSE UNION {{<<first>> \o rest : rest \in OrderedByRevenue(rows \ {first})} :
                first \in {r \in rows :
                              \A other \in rows : r.total_revenue >= other.total_revenue}}

\* get_booking_sources: the results the query can give
booking_sources(d, ivl) == OrderedByRevenue(SourceRows(d, ivl))

\* get_customer_retention: the bookings of the window grouped by passenger_id;
\* the customers, those of more than one booking, and the rounded percentage
customer_retention_every_customer(d, ivl) ==
    LET rows == Where(d.bookings, LAMBDA b : InWindow(b.age, ivl))
        total_customers == Cardinality(Distinct(rows, "passenger_id"))
    IN  [total_customers |-> total_customers,
         returning_customers |-> total_customers,
         retention_rate |-> IF total_customers > 0
                            THEN Round2(total_customers * 100, total_customers)
                            ELSE Zero]

customer_retention(d, ivl) ==
    LET rows == Where(d.bookings, LAMBDA b : InWindow(b.age, ivl))
        booking_count(p) == Len(Where(rows, LAMBDA b : b.passenger_id = p))
        total_customers == Cardinality(Distinct(rows, "passenger_id"))
        returning_customers ==
            Cardinality({p \in Distinct(rows, "passenger_id") :
                            booking_count(p) > 1})
    IN  [total_customers |-> total_customers,
         returning_customers |-> returning_customers,
         retention_rate |-> IF total_customers > 0
                            THEN Round2(returning_customers * 100, total_customers)
                            ELSE Zero]

\* SUM(CASE WHEN total_price > 0 THEN total_price * 0.6 ELSE 0 END), in tenths
CostTenths == 6

estimated_cost(rows) ==
    <<CostTenths * Sum(Where(rows, LAMBDA b : b.total_price > 0), "total_price"), 10>>

\* DATE_TRUNC('month', created_at) as the number of months before the current
\* one, CURRENT_DATE taken as the 15th and a month as 30 days
MonthOf(age) == (age + 15) \div 30

\* ORDER BY month: the months in ascending order, the oldest first
RECURSIVE MonthsAscending(_)
MonthsAscending(months) ==
    IF months = {} THEN <<>>
    ELSE LET oldest == CHOOSE m \in months : \A other \in months : m >= other
         IN  <<oldest>> \o MonthsAscending(months \ {oldest})

\* get_monthly_trends: the window is the literal INTERVAL '6 months'
monthly_trends_of(d, ivl) ==
    LET rows == Where(d.bookings, LAMBDA b : InWindow(b.age, ivl))
        months == MonthsAscending({MonthOf(rows[i].age) : i \in 1..Len(rows)})
        group(m) == Where(rows, LAMBDA b : MonthOf(b.age) = m)
    IN  [i \in 1..Len(months) |->
            [month |-> months[i],
             booking_count |-> Len(group(months[i])),
             revenue |-> Sum(group(months[i]), "total_price"),
             estimated_cost |-> estimated_cost(group(months[i]))]]

monthly_trends_of_period(d, ivl) == monthly_trends_of(d, ivl)

monthly_trends(d, ivl) == monthly_trends_of(d, "6 months")

\* FROM a LEFT JOIN b ON a.id = b.<key> WHERE <a condition on b>: the pairs
\* of matching rows; a row of a without a match has a NULL b, which the WHERE
\* clause rejects
RECURSIVE JoinOn(_, _, _)
JoinOn(a, b, key) ==
    IF a = <<>> THEN <<>>
    ELSE LET matches == SelectSeq(b, LAMBDA r : r[key] = Head(a).id)
         IN  [j \in 1..Len(matches) |-> [l |-> Head(a), r |-> matches[j]]]
             \o JoinOn(Tail(a), b, key)

\* GROUP BY <the name of the left row>: the right rows of one group
Grouped(joined, name) ==
    LET pairs == SelectSeq(joined, LAMBDA p : p.l.name = name)
    IN  [i \in 1..Len(pairs) |-> pairs[i].r]

\* ORDER BY profit DESC: the orders it allows, equal profits in any order
RECURSIVE OrderedByProfit(_)
OrderedByProfit(rows) ==
    IF rows = {} THEN {<<>>}
    ELSE UNION {{<<first>> \o rest : rest \in OrderedByProfit(rows \ {first})} :
                first \in {r \in rows :
                              \A other \in rows : r.profit[1] >= other.profit[1]}}

\* ORDER BY revenue DESC
RECURSIVE OrderedByRouteRevenue(_)
OrderedByRouteRevenue(rows) ==
    IF rows = {} THEN {<<>>}
    ELSE UNION {{<<first>> \o rest : rest \in OrderedByRouteRevenue(rows \ {first})} :
                first \in {r \in rows :
                              \A other \in rows : r.revenue >= other.revenue}}

Limit(rows, n) == SubSeq(rows, 1, IF Len(rows) < n THEN Len(rows) ELSE n)

RouteLimit == 15
AgencyLimit == 10

\* GROUP BY r.name HAVING COALESCE(SUM(b.total_price), 0) > 0
RouteGroups(d, ivl) ==
    LET joined == Where(JoinOn(d.routes, d.bookings, "route_id"),
                        LAMBDA p : InWindow(p.r.age, ivl))
        row(name) ==
            LET group == Grouped(joined, name)
                revenue == Sum(group, "total_price")
                cost == estimated_cost(group)
            IN  [route |-> name, revenue |-> revenue, estimated_cost |-> cost,
                 profit |-> <<10 * revenue - cost[1], 10>>]
    IN  {r \in {row(joined[i].l.name) : i \in 1..Len(joined)} : r.revenue > 0}

route_profitability_by_revenue(d, ivl) ==
    {Limit(rows, RouteLimit) : rows \in OrderedByRouteRevenue(RouteGroups(d, ivl))}

\* get_route_profitability: the results the query can give
route_profitability(d, ivl) ==
    {Limit(rows, RouteLimit) : rows \in OrderedByProfit(RouteGroups(d, ivl))}

\* ORDER BY net_profit DESC
RECURSIVE OrderedByNetProfit(_)
OrderedByNetProfit(rows) ==
    IF rows = {} THEN {<<>>}
    ELSE UNION {{<<first>> \o rest : rest \in OrderedByNetProfit(rows \ {first})} :
                first \in {r \in rows :
                              \A other \in rows : r.net_profit >= other.net_profit}}

\* GROUP BY a.name HAVING COALESCE(SUM(ar.debit), 0) > 0
AgencyGroups(d, ivl) ==
    LET joined == Where(JoinOn(d.agencies, d.agency_reports, "agency_id"),
                        LAMBDA p : InWindow(p.r.age, ivl))
        row(name) ==
            LET group == Grouped(joined, name)
                revenue == Sum(group, "debit")
                cost == Sum(group, "credit")
            IN  [agency |-> name, revenue |-> revenue, cost |-> cost,
                 net_profit |-> revenue - cost,
                 profit_margin |-> IF revenue > 0
                                   THEN Round2((revenue - cost) * 100, revenue)
                                   ELSE Zero]
    IN  {r \in {row(joined[i].l.name) : i \in 1..Len(joined)} : r.revenue > 0}

\* get_agency_profitability: the results the query can give
agency_profitability(d, ivl) ==
    {Limit(rows, AgencyLimit) : rows \in OrderedByNetProfit(AgencyGroups(d, ivl))}

(***************************************************************************)
(* DirectorDashboard: the state machine.                                   *)
(***************************************************************************)
OperationsIdle ==
    /\ db_config = FALSE
    /\ engine = "unset"
    /\ data = NoData
    /\ kpi_results = NoKpis
    /\ source = NoData
    /\ last = NoCall

\* the arguments given to set_period: the four options and another text
PeriodArgs == {"30d", "60d", "365d", "6m", "1y"}

NoQuery == [op |-> "none", failed |-> FALSE, raised |-> "none", ret |-> "None"]
Query(op, failed, raised, ret) ==
    [op |-> op, failed |-> failed, raised |-> raised, ret |-> ret]

\* __init__: connect() leaves connection None when it fails, then
\* set_period(period)
InitDirector(dbs, periods) ==
    /\ connection \in {"none", "open"}
    /\ \E period \in periods :
          /\ period_label = period
          /\ interval = IntervalOf(period)
    /\ db \in dbs
    /\ dlast = NoQuery
    /\ OperationsIdle
    /\ MainIdle

SetPeriod ==
    \E period \in PeriodArgs :
        /\ period_label' = period
        /\ interval' = IntervalOf(period)
        /\ dlast' = Query("set_period", FALSE, "none", "None")
        /\ UNCHANGED <<connection, db, opsVars, mainVars>>

\* execute_query returns an empty DataFrame when the connection is None or
\* the query raises; result['column'] of an empty DataFrame is a KeyError
Scalar(op, ret) ==
    /\ \E error \in BOOLEAN :
          dlast' = IF connection = "none" \/ error
                   THEN Query(op, TRUE, "KeyError", "None")
                   ELSE Query(op, FALSE, "none", ret)
    /\ UNCHANGED <<connection, period_label, interval, db, opsVars, mainVars>>

GetGrossRevenue == Scalar("get_gross_revenue", gross_revenue(db, interval))
GetNetProfit == Scalar("get_net_profit", net_profit(db, interval))
GetCommissionCosts == Scalar("get_commission_costs", commission_costs(db, interval))
GetFleetUtilization == Scalar("get_fleet_utilization", fleet_utilization(db))
GetRofa == Scalar("get_rofa", rofa(db, interval))

\* get_rask_simple returns 0 when the result is empty
GetRaskSimple ==
    /\ \E error \in BOOLEAN :
          dlast' = IF connection = "none" \/ error
                   THEN Query("get_rask_simple", TRUE, "none", Zero)
                   ELSE Query("get_rask_simple", FALSE, "none",
                              rask_simple(db, interval))
    /\ UNCHANGED <<connection, period_label, interval, db, opsVars, mainVars>>

\* get_booking_sources returns the DataFrame of execute_query, empty on failure
GetBookingSources ==
    /\ \E error \in BOOLEAN :
          IF connection = "none" \/ error
          THEN dlast' = Query("get_booking_sources", TRUE, "none", <<>>)
          ELSE \E rows \in booking_sources(db, interval) :
                  dlast' = Query("get_booking_sources", FALSE, "none", rows)
    /\ UNCHANGED <<connection, period_label, interval, db, opsVars, mainVars>>

\* a getter that returns the DataFrame of execute_query: one of the results
\* the query can give, or the empty DataFrame when the query fails
Table(op, results) ==
    /\ \E error \in BOOLEAN :
          IF connection = "none" \/ error
          THEN dlast' = Query(op, TRUE, "none", <<>>)
          ELSE \E rows \in results : dlast' = Query(op, FALSE, "none", rows)
    /\ UNCHANGED <<connection, period_label, interval, db, opsVars, mainVars>>

GetCustomerRetention ==
    Table("get_customer_retention", {<<customer_retention(db, interval)>>})

GetMonthlyTrends == Table("get_monthly_trends", {monthly_trends(db, interval)})

GetRouteProfitability ==
    Table("get_route_profitability", route_profitability(db, interval))

GetAgencyProfitability ==
    Table("get_agency_profitability", agency_profitability(db, interval))

NextDirector ==
    \/ SetPeriod
    \/ GetGrossRevenue
    \/ GetNetProfit
    \/ GetCommissionCosts
    \/ GetFleetUtilization
    \/ GetRofa
    \/ GetRaskSimple
    \/ GetCustomerRetention
    \/ GetBookingSources
    \/ GetMonthlyTrends
    \/ GetRouteProfitability
    \/ GetAgencyProfitability

(***************************************************************************)
(* The databases the director's queries are run on.                        *)
(***************************************************************************)
TransactionRows ==
    [type : {"revenue"}, debit : {2500, 10000}, credit : {0}, age : {10, 45}]
    \cup [type : {"expense"}, debit : {0}, credit : {500}, age : {10}]

\* n vehicles with the ids 1..n, the first k of them operational
Vehicles(n, k) == [i \in 1..n |-> [id |-> i, status |-> i <= k]]

Txt_Web == <<"W", "e", "b">>
Txt_mobile_app_ios ==
    <<"m", "o", "b", "i", "l", "e", "-", "a", "p", "p", "-", "i", "o", "s">>
Txt_MOBILE_APP_IOS ==
    <<"M", "O", "B", "I", "L", "E", "-", "A", "P", "P", "-", "I", "O", "S">>
Txt_online_b2b == <<"o", "n", "l", "i", "n", "e", "-", "b", "2", "b">>
Txt_phone == <<"p", "h", "o", "n", "e">>

ChannelLabels ==
    {Null, Txt_web, Txt_Web, Txt_mobile_app_ios, Txt_MOBILE_APP_IOS,
     Txt_online_b2b, Txt_phone}

ChannelBookingRows ==
    [booking_channel : ChannelLabels, age : {10, 45}, total_price : {100}]

EmptyDb ==
    [transactions |-> <<>>, agency_commissions |-> <<>>, vehicles |-> <<>>,
     vehicle_schedules |-> <<>>, bookings |-> <<>>, fleet_types |-> <<>>,
     route_segments |-> <<>>, routes |-> <<>>, agencies |-> <<>>,
     agency_reports |-> <<>>]

DbWith(tables) == {over @@ EmptyDb : over \in tables}

\* three databases of every table, for the calls in any order
SampleDb ==
    [transactions |->
        <<[type |-> "revenue", debit |-> 10000, credit |-> 0, age |-> 10],
          [type |-> "revenue", debit |-> 2500, credit |-> 0, age |-> 45],
          [type |-> "expense", debit |-> 0, credit |-> 500, age |-> 10],
          [type |-> "revenue", debit |-> 400, credit |-> 0, age |-> 100],
          [type |-> "expense", debit |-> 0, credit |-> 200, age |-> 200]>>,
     agency_commissions |->
        <<[value |-> 300, age |-> 10], [value |-> 20, age |-> 45],
          [value |-> 7, age |-> 100], [value |-> 1, age |-> 200]>>,
     vehicles |-> Vehicles(2, 1),
     vehicle_schedules |-> <<[vehicle_id |-> 1]>>,
     bookings |->
        <<[id |-> 1, passenger_id |-> 1, route_id |-> 1,
           booking_channel |-> Txt_web, age |-> 10, total_price |-> 100],
          [id |-> 2, passenger_id |-> 1, route_id |-> 2,
           booking_channel |-> Txt_mobile_app_ios, age |-> 45, total_price |-> 100],
          [id |-> 3, passenger_id |-> 2, route_id |-> 2,
           booking_channel |-> Null, age |-> 100, total_price |-> 300],
          [id |-> 4, passenger_id |-> 3, route_id |-> 1,
           booking_channel |-> Txt_phone, age |-> 200, total_price |-> 50]>>,
     fleet_types |-> <<[total_seat |-> 50]>>,
     route_segments |-> <<[distance |-> 120]>>,
     routes |-> <<[id |-> 1, name |-> "Route A"], [id |-> 2, name |-> "Route B"]>>,
     agencies |-> <<[id |-> 1, name |-> "Agency A"], [id |-> 2, name |-> "Agency B"]>>,
     agency_reports |->
        <<[agency_id |-> 1, debit |-> 900, credit |-> 400, age |-> 10],
          [agency_id |-> 2, debit |-> 700, credit |-> 100, age |-> 45],
          [agency_id |-> 2, debit |-> 200, credit |-> 0, age |-> 100],
          [agency_id |-> 1, debit |-> 50, credit |-> 10, age |-> 200]>>]

DirectorDbs ==
    {EmptyDb, SampleDb,
     [SampleDb EXCEPT !.vehicles = Vehicles(0, 0), !.fleet_types = <<>>,
                      !.route_segments = <<>>]}

InitDir == InitDirector(DirectorDbs, PeriodArgs)
SpecDirector == InitDir /\ [][NextDirector]_vars

RofaDbs ==
    DbWith(UNION {{("transactions" :> t) @@ ("vehicles" :> Vehicles(n, k)) :
                      t \in SeqsUpTo(TransactionRows, MaxTransactions), k \in {0, n}} :
                  n \in 0..MaxFleet})

InitRofa == InitDirector(RofaDbs, {"30d", "60d"})
SpecRofa == InitRofa /\ [][GetRofa]_vars

SourcesDbs ==
    DbWith({("bookings" :> b) : b \in SeqsUpTo(ChannelBookingRows, MaxChannelBookings)})

InitSources == InitDirector(SourcesDbs, {"30d", "60d"})
SpecSources == InitSources /\ [][GetBookingSources]_vars

\* n customers with a booking 10 days ago, the first k of them with another
\* 20 days ago, and the last one, when old, with one 45 days ago
RetentionBookings(n, k, old) ==
    [i \in 1..n |-> [id |-> i, passenger_id |-> i, age |-> 10, total_price |-> 100]]
    \o [i \in 1..k |->
           [id |-> n + i, passenger_id |-> i, age |-> 20, total_price |-> 100]]
    \o (IF old /\ n > 0
        THEN <<[id |-> n + k + 1, passenger_id |-> n, age |-> 45, total_price |-> 100]>>
        ELSE <<>>)

RetentionDbs ==
    DbWith(UNION {{("bookings" :> RetentionBookings(n, k, old)) :
                      k \in 0..n, old \in BOOLEAN} : n \in 0..MaxCustomers})

InitRetention == InitDirector(RetentionDbs, {"30d", "60d"})
SpecRetention == InitRetention /\ [][GetCustomerRetention]_vars

\* no revenue, or one revenue transaction in or out of the 30-day window; n
\* bookings 10 days ago and, when old, one 45 days ago; seats and distances
\* with rows that are not positive
RaskDbs ==
    DbWith(UNION {{("transactions" :> t) @@ ("fleet_types" :> f)
                   @@ ("route_segments" :> r)
                   @@ ("bookings" :>
                          [i \in 1..n |-> [id |-> i, age |-> 10, total_price |-> 100]]
                          \o (IF old THEN <<[id |-> n + 1, age |-> 45,
                                             total_price |-> 100]>> ELSE <<>>)) :
                      t \in {<<>>,
                             <<[type |-> "revenue", debit |-> 300, credit |-> 0,
                                age |-> 10]>>,
                             <<[type |-> "revenue", debit |-> 1000, credit |-> 0,
                                age |-> 45]>>},
                      f \in SeqsUpTo([total_seat : {0, 30, 50}], MaxRaskRows),
                      r \in SeqsUpTo([distance : {0, 80}], MaxRaskRows),
                      old \in BOOLEAN} : n \in 0..MaxRaskBookings})

InitRask == InitDirector(RaskDbs, {"30d", "60d"})
SpecRask == InitRask /\ [][GetRaskSimple]_vars

\* n routes and n agencies, each with a booking or a report 10 days ago, and
\* one more without any.  The amounts follow a pattern: ascending or
\* descending with the id; the two lowest equal; "refund": the first with
\* the highest revenue and, after a refund, not the highest profit;
\* "negative": the first with a negative revenue; "old": the first booked 45
\* days ago; "same_name": the first two under one name
Patterns ==
    {"ascending", "descending", "tie", "refund", "negative", "old", "same_name"}

Amount(p, n, i) ==
    CASE p = "descending" -> 100 * (n + 1 - i)
      [] p = "tie" -> IF i = 1 THEN 200 ELSE 100 * i
      [] p = "refund" -> IF i = 1 THEN 1000 ELSE 800 - 10 * i
      [] p = "negative" -> IF i = 1 THEN -50 ELSE 100 * i
      [] OTHER -> 100 * i

Named(p, n) ==
    [i \in 1..(n + 1) |->
        [id |-> i, name |-> IF p = "same_name" /\ i = 2 THEN 1 ELSE i]]

RouteBookings(p, n) ==
    [i \in 1..n |->
        [id |-> i, route_id |-> i, age |-> IF p = "old" /\ i = 1 THEN 45 ELSE 10,
         total_price |-> Amount(p, n, i)]]
    \o (IF p = "refund" /\ n > 0
        THEN <<[id |-> n + 1, route_id |-> 1, age |-> 10, total_price |-> -100]>>
        ELSE <<>>)

AgencyReports(p, n) ==
    [i \in 1..n |->
        [agency_id |-> i, age |-> IF p = "old" /\ i = 1 THEN 45 ELSE 10,
         debit |-> IF Amount(p, n, i) > 0 THEN Amount(p, n, i) ELSE 0,
         credit |-> IF p = "refund" /\ i = 1 THEN 900
                    ELSE IF Amount(p, n, i) > 0 THEN 0 ELSE -Amount(p, n, i)]]

ProfitabilityDbs ==
    DbWith({("routes" :> Named(p, n)) @@ ("bookings" :> RouteBookings(p, n))
            @@ ("agencies" :> Named(p, n)) @@ ("agency_reports" :> AgencyReports(p, n)) :
               p \in Patterns, n \in 0..MaxGroups})

InitProfitability == InitDirector(ProfitabilityDbs, {"30d", "60d"})
NextProfitability == GetRouteProfitability \/ GetAgencyProfitability
SpecProfitability == InitProfitability /\ [][NextProfitability]_vars

\* bookings of this month, of last month and from before the six months, with
\* a positive, a zero or a negative total_price
TrendBookingRows == [id : {1}, age : {10, 40, 200}, total_price : {100, 0, -50}]

TrendDbs ==
    DbWith({("bookings" :> b) : b \in SeqsUpTo(TrendBookingRows, MaxTrendBookings)})

InitTrends == InitDirector(TrendDbs, {"30d", "60d"})
SpecTrends == InitTrends /\ [][GetMonthlyTrends]_vars

(***************************************************************************)
(* Claims about DirectorDashboard.                                         *)
(***************************************************************************)
KpiGetters ==
    {"get_gross_revenue", "get_net_profit", "get_commission_costs",
     "get_fleet_utilization", "get_rofa", "get_rask_simple"}

\* C2: when execute_query fails, each KPI getter returns its zero fallback
\* instead of raising.
C2_FailuresNotPropagated ==
    (dlast.op \in KpiGetters /\ dlast.failed) =>
        dlast.raised = "none" /\ dlast.ret = Zero

WindowRevenue ==
    SeqSum([i \in 1..Len(db.transactions) |->
        IF db.transactions[i].type = "revenue"
           /\ InWindow(db.transactions[i].age, interval)
        THEN db.transactions[i].debit ELSE 0])

OperationalVehicles ==
    {db.vehicles[i].id : i \in {j \in 1..Len(db.vehicles) : db.vehicles[j].status}}

\* C3: get_rofa returns the revenue of the window divided by the number of
\* distinct operational vehicles, and 0 without operational vehicles: revenue
\* 10000 with 4 operational vehicles gives 2500.
C3_Rofa ==
    (dlast.op = "get_rofa" /\ ~dlast.failed) =>
        LET vehicles == Cardinality(OperationalVehicles)
        IN  /\ vehicles = 0 => RatEq(dlast.ret[1], Zero)
            /\ vehicles > 0 => RatEq(dlast.ret[1], Round2(WindowRevenue, vehicles))
            /\ (WindowRevenue = 10000 /\ vehicles = 4) =>
                  RatEq(dlast.ret[1], <<2500, 1>>)

LowerChar(c) ==
    CASE c = "W" -> "w" [] c = "M" -> "m" [] c = "O" -> "o" [] c = "B" -> "b"
      [] c = "I" -> "i" [] c = "L" -> "l" [] c = "E" -> "e" [] c = "A" -> "a"
      [] c = "P" -> "p" [] c = "S" -> "s" [] OTHER -> c

LowerText(text) == [i \in 1..Len(text) |-> LowerChar(text[i])]

ChannelBuckets == {"Web", "POS", "Mobile", "B2B"}

BucketPatterns(bucket) ==
    CASE bucket = "Web" -> {<<"w", "e", "b">>, <<"o", "n", "l", "i", "n", "e">>}
      [] bucket = "POS" -> {<<"p", "o", "s">>, <<"c", "o", "u", "n", "t", "e", "r">>}
      [] bucket = "Mobile" -> {<<"m", "o", "b", "i", "l", "e">>, <<"a", "p", "p">>}
      [] bucket = "B2B" -> {<<"b", "2", "b">>,
                            <<"c", "o", "r", "p", "o", "r", "a", "t", "e">>}

\* the buckets whose pattern a label contains; a null label is in Web alone
BucketsOf(label) ==
    IF label = Null THEN {"Web"}
    ELSE {bucket \in ChannelBuckets :
             \E pat \in BucketPatterns(bucket) : Contains(label, pat)}

BookingsInWindow ==
    {i \in 1..Len(db.bookings) : InWindow(db.bookings[i].age, interval)}

\* the booking_count of the row of a source type in the returned table
CountOf(source_type) ==
    LET rows == dlast.ret
    IN  rows[CHOOSE i \in 1..Len(rows) : rows[i].source_type = source_type].booking_count

\* C9: the buckets match case-insensitively: a booking is counted in the
\* buckets of its label in lower case.
C9_CaseInsensitive ==
    (dlast.op = "get_booking_sources" /\ ~dlast.failed) =>
        \A bucket \in ChannelBuckets :
            CountOf(bucket) =
                Cardinality({i \in BookingsInWindow :
                    bucket \in BucketsOf(IF db.bookings[i].booking_channel = Null
                                         THEN Null
                                         ELSE LowerText(db.bookings[i].booking_channel))})

\* C10: a booking of the window is counted in every bucket whose pattern its
\* label contains, a "mobile-app-ios" booking in Mobile, a booking with a null
\* label in Web and in no other bucket; All Channels counts every booking of
\* the window, at least as many as each bucket.
C10_ChannelBuckets ==
    (dlast.op = "get_booking_sources" /\ ~dlast.failed) =>
        /\ Len(dlast.ret) = 5
        /\ {dlast.ret[i].source_type : i \in 1..5} = ChannelBuckets \cup {"All Channels"}
        /\ \A bucket \in ChannelBuckets :
              /\ CountOf(bucket) =
                    Cardinality({i \in BookingsInWindow :
                        bucket \in BucketsOf(db.bookings[i].booking_channel)})
              /\ CountOf("All Channels") >= CountOf(bucket)
        /\ CountOf("All Channels") = Cardinality(BookingsInWindow)
        /\ CountOf("Mobile") >=
              Cardinality({i \in BookingsInWindow :
                  db.bookings[i].booking_channel = Txt_mobile_app_ios})
        /\ (\A i \in BookingsInWindow : db.bookings[i].booking_channel = Null) =>
              /\ CountOf("Web") = Cardinality(BookingsInWindow)
              /\ \A bucket \in ChannelBuckets \ {"Web"} : CountOf(bucket) = 0

C10_Witness ==
    /\ dlast.op = "get_booking_sources" /\ ~dlast.failed
    /\ Len(db.bookings) = 1
    /\ BookingsInWindow = {1}
    /\ db.bookings[1].booking_channel = Txt_online_b2b
    /\ CountOf("All Channels") = 1 /\ CountOf("Web") = 1 /\ CountOf("B2B") = 1
    /\ CountOf("Mobile") = 0 /\ CountOf("POS") = 0

\* the customers with a booking in the window, and those with more than one
WindowCustomers == {db.bookings[i].passenger_id : i \in BookingsInWindow}

ReturningCustomers ==
    {c \in WindowCustomers :
        Cardinality({i \in BookingsInWindow : db.bookings[i].passenger_id = c}) > 1}

\* C11: get_customer_retention returns retention_rate = 100 * (customers with
\* more than one booking in the window) / (customers with a booking in the
\* window), to the two decimals the query keeps, 0 without customers, always
\* within 0..100: 10 customers of whom 4 return give 40.
C11_Retention ==
    (dlast.op = "get_customer_retention" /\ ~dlast.failed) =>
        LET rate == dlast.ret[1].retention_rate
            total == Cardinality(WindowCustomers)
            returning == Cardinality(ReturningCustomers)
            error == rate[1] * total - 100 * rate[2] * returning
        IN  /\ Len(dlast.ret) = 1
            /\ total = 0 => RatEq(rate, Zero)
            /\ total > 0 =>
                  /\ rate[2] = 100
                  /\ 2 * error <= total /\ 2 * error >= -total
            /\ RatLe(Zero, rate) /\ RatLe(rate, <<100, 1>>)
            /\ (total = 10 /\ returning = 4) => RatEq(rate, <<40, 1>>)

C11_Witness ==
    /\ dlast.op = "get_customer_retention" /\ ~dlast.failed
    /\ Cardinality(WindowCustomers) = 10
    /\ Cardinality(ReturningCustomers) = 4
    /\ dlast.ret[1].retention_rate = <<4000, 100>>

\* the mean of the positive values of a column, or a default without any
PositiveRows(table, c) == {i \in 1..Len(db[table]) : db[table][i][c] > 0}

MeanOrDefault(table, c, default) ==
    IF PositiveRows(table, c) = {} THEN <<default, 1>>
    ELSE <<SeqSum([i \in 1..Len(db[table]) |->
                      IF i \in PositiveRows(table, c) THEN db[table][i][c] ELSE 0]),
           Cardinality(PositiveRows(table, c))>>

\* booking_count * average_seats * average_distance
EstimatedAsk ==
    LET seats == MeanOrDefault("fleet_types", "total_seat", 40)
        distance == MeanOrDefault("route_segments", "distance", 100)
    IN  <<Cardinality(BookingsInWindow) * seats[1] * distance[1],
          seats[2] * distance[2]>>

\* C12: get_rask_simple returns the revenue of the window divided by
\* booking_count * average_seats * average_distance, to the four decimals the
\* query keeps, the averages being 40 and 100 when their tables have no
\* positive row; it returns 0 when that denominator is 0, so whenever the
\* window has no booking.
C12_Rask ==
    (dlast.op = "get_rask_simple" /\ ~dlast.failed) =>
        LET rask == dlast.ret
            error == rask[1] * EstimatedAsk[1]
                     - rask[2] * WindowRevenue * EstimatedAsk[2]
        IN  /\ (EstimatedAsk[1] = 0) = (BookingsInWindow = {})
            /\ EstimatedAsk[1] = 0 => RatEq(rask, Zero)
            /\ EstimatedAsk[1] > 0 =>
                  /\ rask[2] = 10000
                  /\ 2 * error <= EstimatedAsk[1] /\ 2 * error >= -EstimatedAsk[1]

C12_Witness ==
    /\ dlast.op = "get_rask_simple" /\ ~dlast.failed
    /\ PositiveRows("fleet_types", "total_seat") = {}
    /\ Len(db.fleet_types) = 1
    /\ PositiveRows("route_segments", "distance") = {}
    /\ Cardinality(BookingsInWindow) = 1
    /\ WindowRevenue = 1000
    /\ dlast.ret = <<2500, 10000>>

\* the revenue and the profit (in tenths) of the bookings of the window on the
\* routes of a name, and the names of positive revenue
RoutesNamed(name) == {db.routes[j].id : j \in {k \in 1..Len(db.routes) :
                                                  db.routes[k].name = name}}

BookingsOn(name) ==
    LET ids == RoutesNamed(name)
    IN  {i \in 1..Len(db.bookings) :
            InWindow(db.bookings[i].age, interval) /\ db.bookings[i].route_id \in ids}

RouteRevenue(name) ==
    LET on == BookingsOn(name)
    IN  SeqSum([i \in 1..Len(db.bookings) |->
            IF i \in on THEN db.bookings[i].total_price ELSE 0])

RouteProfitTenths(name) ==
    LET on == BookingsOn(name)
    IN  10 * RouteRevenue(name)
        - 6 * SeqSum([i \in 1..Len(db.bookings) |->
                  IF i \in on /\ db.bookings[i].total_price > 0
                  THEN db.bookings[i].total_price ELSE 0])

PositiveRoutes ==
    {name \in {db.routes[j].name : j \in 1..Len(db.routes)} : RouteRevenue(name) > 0}

AgenciesNamed(name) == {db.agencies[j].id : j \in {k \in 1..Len(db.agencies) :
                                                      db.agencies[k].name = name}}

ReportsOf(name) ==
    LET ids == AgenciesNamed(name)
    IN  {i \in 1..Len(db.agency_reports) :
            /\ InWindow(db.agency_reports[i].age, interval)
            /\ db.agency_reports[i].agency_id \in ids}

AgencyRevenue(name) ==
    LET of == ReportsOf(name)
    IN  SeqSum([i \in 1..Len(db.agency_reports) |->
            IF i \in of THEN db.agency_reports[i].debit ELSE 0])

AgencyNetProfit(name) ==
    LET of == ReportsOf(name)
    IN  SeqSum([i \in 1..Len(db.agency_reports) |->
            IF i \in of
            THEN db.agency_reports[i].debit - db.agency_reports[i].credit ELSE 0])

PositiveAgencies ==
    {name \in {db.agencies[j].name : j \in 1..Len(db.agencies)} :
        AgencyRevenue(name) > 0}

AtMost(n, limit) == IF n < limit THEN n ELSE limit

\* C14: get_route_profitability and get_agency_profitability return one row
\* for each route or agency name of positive revenue in the window, in
\* descending order of net profit, cut to the first 15 routes and the first 10
\* agencies: no name left out has a larger profit than a row returned.
C14_TopByProfit ==
    /\ (dlast.op = "get_route_profitability" /\ ~dlast.failed) =>
          LET rows == dlast.ret
              returned == {rows[i].route : i \in 1..Len(rows)}
              positive == PositiveRoutes
              leftOut == {RouteProfitTenths(name) : name \in positive \ returned}
          IN  /\ Len(rows) = AtMost(Cardinality(positive), 15)
              /\ Cardinality(returned) = Len(rows)
              /\ returned \subseteq positive
              /\ \A i \in 1..Len(rows) :
                    /\ rows[i].revenue = RouteRevenue(rows[i].route)
                    /\ rows[i].profit = <<RouteProfitTenths(rows[i].route), 10>>
                    /\ \A j \in 1..(i - 1) : rows[j].profit[1] >= rows[i].profit[1]
                    /\ \A profit \in leftOut : profit <= rows[i].profit[1]
    /\ (dlast.op = "get_agency_profitability" /\ ~dlast.failed) =>
          LET rows == dlast.ret
              returned == {rows[i].agency : i \in 1..Len(rows)}
              positive == PositiveAgencies
              leftOut == {AgencyNetProfit(name) : name \in positive \ returned}
          IN  /\ Len(rows) = AtMost(Cardinality(positive), 10)
              /\ Cardinality(returned) = Len(rows)
              /\ returned \subseteq positive
              /\ \A i \in 1..Len(rows) :
                    /\ rows[i].revenue = AgencyRevenue(rows[i].agency)
                    /\ rows[i].net_profit = AgencyNetProfit(rows[i].agency)
                    /\ \A j \in 1..(i - 1) : rows[j].net_profit >= rows[i].net_profit
                    /\ \A profit \in leftOut : profit <= rows[i].net_profit

C14_Witness ==
    /\ dlast.op = "get_route_profitability" /\ ~dlast.failed
    /\ Cardinality(PositiveRoutes) = 16
    /\ Len(dlast.ret) = 15
    /\ dlast.ret[1].route = 2 /\ dlast.ret[1].profit = <<3120, 10>>
    /\ dlast.ret[4].route = 1 /\ dlast.ret[4].revenue = 900
    /\ PositiveRoutes \ {dlast.ret[i].route : i \in 1..15} = {16}

\* C15: in every row of get_monthly_trends the estimated cost is 60% of the
\* revenue of the month, whatever the bookings of the month, those of a zero
\* or negative total_price included.
C15_CostIsSixtyPercent ==
    (dlast.op = "get_monthly_trends" /\ ~dlast.failed) =>
        \A i \in 1..Len(dlast.ret) :
            RatEq(dlast.ret[i].estimated_cost, <<60 * dlast.ret[i].revenue, 100>>)

\* the days of the window an option of set_period names, six months as 181
PeriodDays(label) ==
    CASE label = "30d" -> 30
      [] label = "60d" -> 60
      [] label = "365d" -> 365
      [] label = "6m" -> 181
      [] OTHER -> 30

\* the database without the rows older than a number of days
Recent(days) ==
    [t \in DOMAIN db |->
        IF t \in {"transactions", "agency_commissions", "bookings", "agency_reports"}
        THEN SelectSeq(db[t], LAMBDA r : r.age <= days)
        ELSE db[t]]

TrendBookings(m) ==
    {i \in 1..Len(db.bookings) :
        db.bookings[i].age <= 181 /\ MonthOf(db.bookings[i].age) = m}

\* C16: get_monthly_trends aggregates the bookings of the last six months
\* whatever set_period selected, and every other windowed derivation gives the
\* result of the rows within the window of the last set_period call.
C16_Windows ==
    ~dlast.failed =>
        LET recent == Recent(PeriodDays(period_label))
            all == "365 days"
        IN  /\ dlast.op = "get_monthly_trends" =>
                  /\ {dlast.ret[i].month : i \in 1..Len(dlast.ret)}
                        = {m \in 0..12 : TrendBookings(m) # {}}
                  /\ \A i \in 1..Len(dlast.ret) :
                        dlast.ret[i].booking_count
                            = Cardinality(TrendBookings(dlast.ret[i].month))
            /\ dlast.op = "get_gross_revenue" => dlast.ret = gross_revenue(recent, all)
            /\ dlast.op = "get_net_profit" => dlast.ret = net_profit(recent, all)
            /\ dlast.op = "get_commission_costs" =>
                  dlast.ret = commission_costs(recent, all)
            /\ dlast.op = "get_rofa" => dlast.ret = rofa(recent, all)
            /\ dlast.op = "get_rask_simple" => dlast.ret = rask_simple(recent, all)
            /\ dlast.op = "get_customer_retention" =>
                  dlast.ret = <<customer_retention(recent, all)>>
            /\ dlast.op = "get_booking_sources" =>
                  dlast.ret \in booking_sources(recent, all)
            /\ dlast.op = "get_route_profitability" =>
                  dlast.ret \in route_profitability(recent, all)
            /\ dlast.op = "get_agency_profitability" =>
                  dlast.ret \in agency_profitability(recent, all)

C16_Witness ==
    /\ dlast.op = "get_monthly_trends" /\ ~dlast.failed
    /\ period_label = "60d"
    /\ Len(db.bookings) = 4
    /\ Len(dlast.ret) = 3
    /\ dlast.ret[1].month = 3 /\ dlast.ret[1].revenue = 300

\* C17: after construction and after every set_period call, interval is one
\* of 30 days, 60 days, 365 days, 6 months: the one named by the last argument
\* (30d, 60d, 365d, 6m), and 30 days when the argument is no recognized option.
C17_RecognizedWindow ==
    /\ interval \in {"30 days", "60 days", "365 days", "6 months"}
    /\ period_label = "30d" => interval = "30 days"
    /\ period_label = "60d" => interval = "60 days"
    /\ period_label = "365d" => interval = "365 days"
    /\ period_label = "6m" => interval = "6 months"
    /\ period_label \notin {"30d", "60d", "365d", "6m"} => interval = "30 days"

C17_Witness ==
    /\ dlast.op = "set_period"
    /\ period_label = "1y"
    /\ interval = "30 days"

====
